---- MODULE Spec2Model ----
(***************************************************************************)
(* A model of ics/types.py: the RuntimeAttrValidation mixin (attribute     *)
(* writes re-run the attrs converters and validators once construction has *)
(* finished), the EmptyDict sentinel and copy_extra_params.                *)
(***************************************************************************)
EXTENDS Integers, Sequences, FiniteSets, TLC

VARIABLES
    objs,        \* instance -> [cls, attrs]: its class and its instance __dict__
    class_dict,  \* class -> its own __attr_fields__ entry (cls.__dict__)
    last,        \* what the last operation on an instance did
    nops,        \* number of attribute writes performed so far
    sentinel,    \* EmptyDict.__dict__: what the sentinel instance itself holds
    warned,      \* the warnings issued through warnings.warn, in order
    slast,       \* what the last operation on the sentinel did
    lists,       \* the list objects of the heap: reference -> content
    dicts,       \* the dict objects of the heap: reference -> key -> value
    source,      \* the argument handed to copy_extra_params
    results,     \* the references copy_extra_params has returned, in order
    clast,       \* what the last operation on the params mappings did
    entries,     \* calendar entry -> the timespan object its _timespan refers to
    rlast,       \* the last call of get_timespan_if_calendar_entry
    threads      \* thread -> the __setattr__ call it is in: position and locals

ivars == <<objs, class_dict, last, nops>>
svars == <<sentinel, warned, slast>>
cvars == <<lists, dicts, source, results, clast>>
rvars == <<entries, rlast>>
\* The variables of the components added after the first three.
xvars == <<rvars, threads>>
vars == <<objs, class_dict, last, nops, sentinel, warned, slast,
          lists, dicts, source, results, clast, entries, rlast, threads>>

\* Bound on the number of attribute writes of one behaviour.
MaxOps == 2

----------------------------------------------------------------------------
(* Python values.  Every value is a record of the same shape so that any   *)
(* two values can be compared.                                             *)

IntV(n) == [tag |-> "int", i |-> n, s |-> ""]
StrV(t) == [tag |-> "str", i |-> 0, s |-> t]
BoolV(b) == [tag |-> "bool", i |-> IF b THEN 1 ELSE 0, s |-> ""]
NoneV == [tag |-> "none", i |-> 0, s |-> ""]
\* The attribute is not in the instance __dict__.
Absent == [tag |-> "absent", i |-> 0, s |-> ""]

\* The values a caller passes to an attribute write.
Values == {IntV(-1), IntV(0), IntV(1), StrV("1"), StrV("x")}
\* The values a caller passes to the constructor.
InitValues == {StrV("1"), StrV("x")}

\* The test with True as the default of getattr: an absent marker counts as set.
TruthyByDefault(v) ==
    CASE v.tag = "int" -> v.i # 0
      [] v.tag = "bool" -> v.i # 0
      [] v.tag = "str" -> v.s # ""
      [] v.tag = "absent" -> TRUE
      [] OTHER -> FALSE

\* bool(v), as `if getattr(self, "__post_init__", None)` evaluates it.
Truthy(v) ==
    CASE v.tag = "int" -> v.i # 0
      [] v.tag = "bool" -> v.i # 0
      [] v.tag = "str" -> v.s # ""
      [] OTHER -> FALSE

----------------------------------------------------------------------------
(* The adopting types and their attrs field declarations.                  *)
(*   class P(RuntimeAttrValidation):                                       *)
(*       count = attr.ib(converter=int, validator=nonneg)                  *)
(*       label = attr.ib()                                                 *)
(*   class S(P):                                                           *)
(*       count = attr.ib(converter=int, validator=positive)                *)
(*       limit = attr.ib(converter=int, validator=nonneg)                  *)
(* RuntimeAttrValidation itself is an attrs class with no field.           *)

Objs == {"o1", "o2"}
Types == {"RuntimeAttrValidation", "P", "S"}
NoClass == "unallocated"
Marker == "__post_init__"
AttrNames == {"count", "label", "limit", Marker}

\* cls.__mro__, without object.
Mro(cls) ==
    CASE cls = "S" -> <<"S", "P", "RuntimeAttrValidation">>
      [] cls = "P" -> <<"P", "RuntimeAttrValidation">>
      [] OTHER -> <<"RuntimeAttrValidation">>

Attribute(n, c, v) == [name |-> n, converter |-> c, validator |-> v]

\* attr.fields_dict(cls): the declared fields of cls, inherited ones included
\* and overridden ones replaced.
fields_dict(cls) ==
    CASE cls = "P" -> {Attribute("count", "int", "nonneg"),
                       Attribute("label", "none", "none")}
      [] cls = "S" -> {Attribute("count", "int", "positive"),
                       Attribute("label", "none", "none"),
                       Attribute("limit", "int", "nonneg")}
      [] OTHER -> {}

FieldNames(cls) == {a.name : a \in fields_dict(cls)}
FieldOf(reg, key) == CHOOSE a \in reg : a.name = key

\* The literals int() parses among the strings of Values.
IsIntLiteral(t) == t \in {"-1", "0", "1"}
ParseInt(t) == CASE t = "-1" -> -1 [] t = "0" -> 0 [] OTHER -> 1

\* field.converter(value): [ok, val]; ~ok is the converter raising.
Convert(c, v) ==
    CASE c = "int" /\ v.tag \in {"int", "bool"} -> [ok |-> TRUE, val |-> IntV(v.i)]
      [] c = "int" /\ v.tag = "str" ->
            IF IsIntLiteral(v.s) THEN [ok |-> TRUE, val |-> IntV(ParseInt(v.s))]
                                 ELSE [ok |-> FALSE, val |-> v]
      [] c = "int" -> [ok |-> FALSE, val |-> v]
      [] OTHER -> [ok |-> TRUE, val |-> v]

\* field.validator(self, field, value) returns (TRUE) or raises (FALSE).  The
\* comparison of a str or None with a number raises as well.
Validate(vd, v) ==
    CASE vd = "nonneg" -> v.tag \in {"int", "bool"} /\ v.i >= 0
      [] vd = "positive" -> v.tag \in {"int", "bool"} /\ v.i >= 1
      [] OTHER -> TRUE

----------------------------------------------------------------------------
(* RuntimeAttrValidation.__setattr__                                       *)

NoEntry == [has |-> FALSE, fields |-> {}]

RECURSIVE MroLookup(_, _, _)
MroLookup(cd, mro, k) ==
    IF k > Len(mro) THEN NoEntry
    ELSE IF cd[mro[k]].has THEN cd[mro[k]]
    ELSE MroLookup(cd, mro, k + 1)

\* A single cache shared by every class: the entry of any class that has one.
GetAttrFieldsShared(cd, cls) ==
    IF \E c \in Types : cd[c].has
    THEN cd[CHOOSE c \in Types : cd[c].has /\ \A d \in Types : cd[d].has => Len(Mro(d)) <= Len(Mro(c))]
    ELSE NoEntry

\* getattr(cls, "__attr_fields__", None): the entry of the first class of the
\* MRO that has one.
GetAttrFields(cd, cls) == MroLookup(cd, Mro(cls), 1)

\* `not getattr(cls, "__attr_fields__", None)`: no entry, or an empty dict.
MustBuild(cd, cls) ==
    LET e == GetAttrFields(cd, cls) IN ~(e.has /\ e.fields # {})

\* The registry stored on the mixin class instead of on cls.
StoreAttrFieldsOnRoot(cd, cls) ==
    [cd EXCEPT !["RuntimeAttrValidation"] = [has |-> TRUE, fields |-> fields_dict(cls)]]

\* cls.__attr_fields__ = attr.fields_dict(cls)
StoreAttrFields(cd, cls) ==
    [cd EXCEPT ![cls] = [has |-> TRUE, fields |-> fields_dict(cls)]]

\* The value __setattr__ leaves in the instance __dict__ when it raises.
AttrsOnError(attrs, key, value) == attrs

\* One call of __setattr__(self, key, value) on an instance of cls whose
\* __dict__ is attrs, with the class dictionaries cd.
SetAttr(cd, cls, attrs, key, value) ==
    LET intercepted == Truthy(attrs[Marker])
        build == intercepted /\ MustBuild(cd, cls)
        cd1 == IF build THEN StoreAttrFields(cd, cls) ELSE cd
        reg == GetAttrFields(cd1, cls).fields
        declared == intercepted /\ \E a \in reg : a.name = key
        field == FieldOf(reg, key)
        convCalled == declared /\ field.converter # "none"
        conv == IF convCalled THEN Convert(field.converter, value)
                ELSE [ok |-> TRUE, val |-> value]
        valCalled == declared /\ conv.ok /\ field.validator # "none"
        valid == IF valCalled THEN Validate(field.validator, conv.val) ELSE TRUE
        outcome == IF ~conv.ok THEN "ConverterError"
                   ELSE IF ~valid THEN "ValidatorError" ELSE "ok"
    IN [outcome |-> outcome,
        attrs |-> IF outcome = "ok" THEN [attrs EXCEPT ![key] = conv.val]
                  ELSE AttrsOnError(attrs, key, conv.val),
        cd |-> cd1,
        intercepted |-> intercepted,
        introspected |-> build,
        registry |-> IF intercepted THEN reg ELSE {},
        declared |-> declared,
        convCalls |-> IF convCalled THEN 1 ELSE 0,
        valCalls |-> IF valCalled THEN 1 ELSE 0,
        valArg |-> IF valCalled THEN conv.val ELSE Absent]

----------------------------------------------------------------------------
(* Construction: the __init__ attrs generates.                             *)

\* What the generated __init__ does with the argument v of the field a: it
\* stores converter(v), and runs the validator on the stored value.
InitField(a, v) ==
    LET conv == Convert(a.converter, v)
    IN [ok |-> conv.ok /\ Validate(a.validator, conv.val),
        outcome |-> IF ~conv.ok THEN "ConverterError"
                    ELSE IF ~Validate(a.validator, conv.val) THEN "ValidatorError"
                    ELSE "ok",
        val |-> conv.val]

EmptyAttrs == [n \in AttrNames |-> Absent]

\* The instance __dict__ once every `self.f = converter(f)` of __init__ has run
\* (through __setattr__, which stores as given while the marker is unset).
InitAttrs(cls, args) ==
    [n \in AttrNames |->
        IF n \in FieldNames(cls)
        THEN InitField(FieldOf(fields_dict(cls), n), args[n]).val
        ELSE Absent]

InitOk(cls, args) ==
    \A a \in fields_dict(cls) : InitField(a, args[a.name]).ok

NoLast ==
    [op |-> "none", obj |-> "", cls |-> NoClass, key |-> "", value |-> Absent,
     before |-> Absent, outcome |-> "ok", intercepted |-> FALSE,
     introspected |-> FALSE, registry |-> {}, declared |-> FALSE,
     convCalls |-> 0, valCalls |-> 0, valArg |-> Absent, cachedBefore |-> {},
     repeat |-> FALSE, markerBefore |-> Absent]

IInit ==
    /\ objs = [o \in Objs |-> [cls |-> NoClass, attrs |-> EmptyAttrs]]
    /\ class_dict = [c \in Types |-> NoEntry]
    /\ last = NoLast
    /\ nops = 0

\* obj = cls(**args): __init__ and then __attrs_post_init__, which sets the
\* marker through __setattr__.  A raising __init__ returns no instance.
Construct(o, cls, args) ==
    /\ objs[o].cls = NoClass
    /\ UNCHANGED <<nops, svars, cvars, xvars>>
    /\ IF InitOk(cls, args)
       THEN LET r == SetAttr(class_dict, cls, InitAttrs(cls, args), Marker, BoolV(TRUE))
            IN /\ objs' = [objs EXCEPT ![o] = [cls |-> cls, attrs |-> r.attrs]]
               /\ class_dict' = r.cd
               /\ last' = [NoLast EXCEPT !.op = "construct", !.obj = o, !.cls = cls,
                                         !.intercepted = r.intercepted]
       ELSE /\ UNCHANGED <<objs, class_dict>>
            /\ last' = [NoLast EXCEPT !.op = "construct", !.obj = o, !.cls = cls,
                                      !.outcome = "InitError"]

\* obj.key = value on an instance that construction has returned.
SetAttribute(o, key, value) ==
    /\ nops < MaxOps
    /\ objs[o].cls # NoClass
    /\ nops' = nops + 1
    /\ UNCHANGED <<svars, cvars, xvars>>
    /\ LET cls == objs[o].cls
           r == SetAttr(class_dict, cls, objs[o].attrs, key, value)
       IN /\ objs' = [objs EXCEPT ![o].attrs = r.attrs]
          /\ class_dict' = r.cd
          /\ last' = [op |-> "setattr", obj |-> o, cls |-> cls, key |-> key,
                      value |-> value, before |-> objs[o].attrs[key],
                      outcome |-> r.outcome, intercepted |-> r.intercepted,
                      introspected |-> r.introspected, registry |-> r.registry,
                      declared |-> r.declared, convCalls |-> r.convCalls,
                      valCalls |-> r.valCalls, valArg |-> r.valArg,
                      cachedBefore |-> {c \in Types : class_dict[c].has},
                      repeat |-> /\ last.op = "setattr" /\ last.outcome = "ok"
                                 /\ last.obj = o /\ last.key = key
                                 /\ last.value = value,
                      markerBefore |-> objs[o].attrs[Marker]]

----------------------------------------------------------------------------
(* Construction step by step: the instance exists from __new__ on, __init__ *)
(* assigns its attributes through __setattr__, and __attrs_post_init__ sets *)
(* the marker at the end.                                                  *)

\* cls.__new__(cls): an instance with an empty __dict__.  One instance is
\* followed through its construction.
Allocate(o, cls) ==
    /\ \A p \in Objs : objs[p].cls = NoClass
    /\ objs' = [objs EXCEPT ![o] = [cls |-> cls, attrs |-> EmptyAttrs]]
    /\ last' = [NoLast EXCEPT !.op = "new", !.obj = o, !.cls = cls]
    /\ UNCHANGED <<class_dict, nops, svars, cvars, xvars>>

\* __attrs_post_init__(self): self.__post_init__ = True, through __setattr__.
PostInit(o) ==
    /\ objs[o].cls # NoClass
    /\ objs[o].attrs[Marker] = Absent
    /\ LET cls == objs[o].cls
           r == SetAttr(class_dict, cls, objs[o].attrs, Marker, BoolV(TRUE))
       IN /\ objs' = [objs EXCEPT ![o].attrs = r.attrs]
          /\ class_dict' = r.cd
          /\ last' = [op |-> "post_init", obj |-> o, cls |-> cls, key |-> Marker,
                      value |-> BoolV(TRUE), before |-> objs[o].attrs[Marker],
                      outcome |-> r.outcome, intercepted |-> r.intercepted,
                      introspected |-> r.introspected, registry |-> r.registry,
                      declared |-> r.declared, convCalls |-> r.convCalls,
                      valCalls |-> r.valCalls, valArg |-> r.valArg,
                      cachedBefore |-> {c \in Types : class_dict[c].has},
                      repeat |-> FALSE,
                      markerBefore |-> objs[o].attrs[Marker]]
    /\ UNCHANGED <<nops, svars, cvars, xvars>>

ConstructNext ==
    \/ \E o \in Objs, cls \in Types : Allocate(o, cls)
    \/ \E o \in Objs, key \in AttrNames, value \in Values : SetAttribute(o, key, value)
    \/ \E o \in Objs : PostInit(o)

----------------------------------------------------------------------------
(* EmptyDictType and its one instance, EmptyDict.                          *)

Keys == {"a", "b"}
ItemValues == {StrV("x"), NoneV}

\* Bound on the number of operations on the sentinel in one behaviour.
MaxSentinelOps == 3

\* __getitem__(self, k)
EmptyDictType_getitem(self, k) == NoneV

\* Whether __getitem__(self, k) raises KeyError: it has no raise statement.
EmptyDictType_getitem_raises(self, k) == FALSE

\* k in self, inherited from Mapping: True unless self[k] raises KeyError.
EmptyDictType_contains(self, k) ==
    BoolV(~EmptyDictType_getitem_raises(self, k))

\* self.get(k, d), inherited from Mapping: self[k], d if that raises KeyError.
EmptyDictType_get(self, k, d) ==
    IF EmptyDictType_getitem_raises(self, k) THEN d
    ELSE EmptyDictType_getitem(self, k)

\* A __setitem__ that stores the item in the instance.
EmptyDictType_setitem_storing(self, k, v) ==
    [self |-> self \cup {<<k, v>>}, raised |-> FALSE, warnings |-> <<>>]

\* __setitem__(self, k, v): one warning, nothing stored, returns normally.
EmptyDictType_setitem(self, k, v) ==
    [self |-> self, raised |-> FALSE,
     warnings |-> <<[text |-> "EmptyDictType[%r] = %s ignored", k |-> k, v |-> v]>>]

\* __delitem__(self, v): one warning, nothing removed, returns normally.
EmptyDictType_delitem(self, k) ==
    [self |-> self, raised |-> FALSE,
     warnings |-> <<[text |-> "del %s[%r] ignored", k |-> k, v |-> NoneV]>>]

\* __len__(self)
EmptyDictType_len(self) == 0

\* list(iter(self))
EmptyDictType_iter(self) == <<>>

NoSLast ==
    [op |-> "none", k |-> "", d |-> Absent, result |-> Absent, raised |-> FALSE,
     warnedBefore |-> 0, len |-> 0, entries |-> <<>>]

SInit ==
    /\ sentinel = {}
    /\ warned = <<>>
    /\ slast = NoSLast

\* EmptyDict[k]
GetItem(k) ==
    /\ Len(warned) < MaxSentinelOps
    /\ slast' = [NoSLast EXCEPT !.op = "getitem", !.k = k,
                                !.result = EmptyDictType_getitem(sentinel, k),
                                !.warnedBefore = Len(warned)]
    /\ UNCHANGED <<sentinel, warned, ivars, cvars, xvars>>

\* EmptyDict[k] = v
SetItem(k, v) ==
    /\ Len(warned) < MaxSentinelOps
    /\ LET r == EmptyDictType_setitem(sentinel, k, v)
       IN /\ sentinel' = r.self
          /\ warned' = warned \o r.warnings
          /\ slast' = [NoSLast EXCEPT !.op = "setitem", !.k = k, !.raised = r.raised,
                                      !.warnedBefore = Len(warned)]
    /\ UNCHANGED <<ivars, cvars, xvars>>

\* del EmptyDict[k]
DelItem(k) ==
    /\ Len(warned) < MaxSentinelOps
    /\ LET r == EmptyDictType_delitem(sentinel, k)
       IN /\ sentinel' = r.self
          /\ warned' = warned \o r.warnings
          /\ slast' = [NoSLast EXCEPT !.op = "delitem", !.k = k, !.raised = r.raised,
                                      !.warnedBefore = Len(warned)]
    /\ UNCHANGED <<ivars, cvars, xvars>>

\* len(EmptyDict) and list(EmptyDict)
Observe ==
    /\ Len(warned) < MaxSentinelOps
    /\ slast' = [NoSLast EXCEPT !.op = "observe",
                                !.len = EmptyDictType_len(sentinel),
                                !.entries = EmptyDictType_iter(sentinel),
                                !.warnedBefore = Len(warned)]
    /\ UNCHANGED <<sentinel, warned, ivars, cvars, xvars>>

\* k in EmptyDict
Contains(k) ==
    /\ Len(warned) < MaxSentinelOps
    /\ slast' = [NoSLast EXCEPT !.op = "contains", !.k = k,
                                !.result = EmptyDictType_contains(sentinel, k),
                                !.warnedBefore = Len(warned)]
    /\ UNCHANGED <<sentinel, warned, ivars, cvars, xvars>>

\* EmptyDict.get(k, d)
Get(k, d) ==
    /\ Len(warned) < MaxSentinelOps
    /\ slast' = [NoSLast EXCEPT !.op = "get", !.k = k, !.d = d,
                                !.result = EmptyDictType_get(sentinel, k, d),
                                !.warnedBefore = Len(warned)]
    /\ UNCHANGED <<sentinel, warned, ivars, cvars, xvars>>

SNext ==
    \/ \E k \in Keys : GetItem(k)
    \/ \E k \in Keys : Contains(k)
    \/ \E k \in Keys, d \in ItemValues : Get(k, d)
    \/ \E k \in Keys, v \in ItemValues : SetItem(k, v)
    \/ \E k \in Keys : DelItem(k)
    \/ Observe

----------------------------------------------------------------------------
(* copy_extra_params                                                       *)

\* Bound on the number of operations on the params mappings in one behaviour.
MaxCopyOps == 3

\* The values of a params mapping: a str, a reference to a list object, a
\* value that is neither a str nor a list (an int), or no entry for the key.
DStr(t) == [tag |-> "str", s |-> t, ref |-> 0]
DList(r) == [tag |-> "list", s |-> "", ref |-> r]
DOther == [tag |-> "other", s |-> "", ref |-> 0]
Missing == [tag |-> "missing", s |-> "", ref |-> 0]

\* List elements are written as strings; this one stands for the int 7, an
\* element that is no str.
IntElem == "<int 7>"
IsStrElem(e) == e # IntElem

EmptyMapping == [k \in Keys |-> Missing]
\* The order in which old.items() yields the keys.
KeyOrder == <<"a", "b">>

\* `not old`: None, the sentinel (whose len is 0) or a dict without entries.
IsFalsy(ds, old) ==
    \/ old.kind \in {"none", "sentinel"}
    \/ old.kind = "dict" /\ ds[old.ref] = EmptyMapping

\* new[key] = value for a list: the same list object in both mappings.
CopyListAliased(ls, r) == [lists |-> ls, ref |-> r]

\* list(value): a new list object with the same content.
CopyList(ls, r) == [lists |-> Append(ls, ls[r]), ref |-> Len(ls) + 1]

\* A loop that skips a value that is neither a str nor a list.
RECURSIVE CopyItemsSkipping(_, _, _, _)
CopyItemsSkipping(ls, old, new, i) ==
    IF i > Len(KeyOrder) THEN [raised |-> FALSE, lists |-> ls, new |-> new]
    ELSE LET key == KeyOrder[i]
             value == old[key]
         IN CASE value.tag = "str" ->
                    CopyItemsSkipping(ls, old, [new EXCEPT ![key] = value], i + 1)
              [] value.tag = "list" ->
                    CopyItemsSkipping(Append(ls, ls[value.ref]), old,
                                      [new EXCEPT ![key] = DList(Len(ls) + 1)], i + 1)
              [] OTHER -> CopyItemsSkipping(ls, old, new, i + 1)

\* The for loop of copy_extra_params from the i-th key on.
RECURSIVE CopyItems(_, _, _, _)
CopyItems(ls, old, new, i) ==
    IF i > Len(KeyOrder) THEN [raised |-> FALSE, lists |-> ls, new |-> new]
    ELSE LET key == KeyOrder[i]
             value == old[key]
         IN CASE value.tag = "missing" -> CopyItems(ls, old, new, i + 1)
              [] value.tag = "str" ->
                    CopyItems(ls, old, [new EXCEPT ![key] = value], i + 1)
              [] value.tag = "list" ->
                    LET c == CopyList(ls, value.ref)
                    IN CopyItems(c.lists, old, [new EXCEPT ![key] = DList(c.ref)], i + 1)
              [] OTHER -> [raised |-> TRUE, lists |-> ls, new |-> new]

\* A copy that hands out one shared empty dict for every falsy argument.
copy_extra_params_shared(ls, ds, old) ==
    IF IsFalsy(ds, old)
    THEN IF \E d \in 1..Len(ds) : d # old.ref /\ ds[d] = EmptyMapping
         THEN [raised |-> FALSE, lists |-> ls, dicts |-> ds,
               ref |-> CHOOSE d \in 1..Len(ds) : d # old.ref /\ ds[d] = EmptyMapping]
         ELSE [raised |-> FALSE, lists |-> ls, dicts |-> Append(ds, EmptyMapping),
               ref |-> Len(ds) + 1]
    ELSE LET r == CopyItems(ls, ds[old.ref], EmptyMapping, 1)
         IN IF r.raised
            THEN [raised |-> TRUE, lists |-> ls, dicts |-> ds, ref |-> 0]
            ELSE [raised |-> FALSE, lists |-> r.lists, dicts |-> Append(ds, r.new),
                  ref |-> Len(ds) + 1]

\* copy_extra_params(old) on the heap (ls, ds): the heap afterwards and the
\* reference of the dict returned, or raised (ValueError) with the heap as it
\* was (the dict and the lists built so far are unreachable).
copy_extra_params(ls, ds, old) ==
    IF IsFalsy(ds, old)
    THEN [raised |-> FALSE, lists |-> ls, dicts |-> Append(ds, EmptyMapping),
          ref |-> Len(ds) + 1]
    ELSE LET r == CopyItems(ls, ds[old.ref], EmptyMapping, 1)
         IN IF r.raised
            THEN [raised |-> TRUE, lists |-> ls, dicts |-> ds, ref |-> 0]
            ELSE [raised |-> FALSE, lists |-> r.lists, dicts |-> Append(ds, r.new),
                  ref |-> Len(ds) + 1]

\* The content of the dict d, list values read through their references.
Deep(ls, ds, d) ==
    [k \in Keys |-> [tag |-> ds[d][k].tag, s |-> ds[d][k].s,
                     content |-> IF ds[d][k].tag = "list" THEN ls[ds[d][k].ref]
                                 ELSE <<>>]]
DeepAll(ls, ds) == [d \in 1..Len(ds) |-> Deep(ls, ds, d)]
ListRefs(ds, d) == {ds[d][k].ref : k \in {x \in Keys : ds[d][x].tag = "list"}}

NoCLast ==
    [op |-> "none", n |-> 0, d |-> 0, k |-> "", raised |-> FALSE,
     deepBefore |-> <<>>, listsBefore |-> 0]

CIdle ==
    /\ lists = <<>>
    /\ dicts = <<>>
    /\ source = [kind |-> "none", ref |-> 0]
    /\ results = <<>>
    /\ clast = NoCLast

\* The kinds of value a key of the source has when the caller hands it over.
\* "intlist" is a list that holds an int.
SourceKinds == {"missing", "str", "list", "intlist", "other"}
ListKinds == {"list", "intlist"}

\* The source mapping whose keys a and b have values of the kinds ka and kb.
SourceDict(ka, kb) ==
    [k \in Keys |->
        LET kind == IF k = "a" THEN ka ELSE kb
        IN CASE kind = "str" -> DStr("x")
             [] kind \in ListKinds -> DList(IF k = "b" /\ ka \in ListKinds THEN 2 ELSE 1)
             [] kind = "other" -> DOther
             [] OTHER -> Missing]
SourceLists(ka, kb) ==
    (CASE ka = "list" -> <<(<<"y">>)>>
       [] ka = "intlist" -> <<(<<IntElem>>)>>
       [] OTHER -> <<>>)
    \o (CASE kb = "list" -> <<(<<"y", "z">>)>>
           [] kb = "intlist" -> <<(<<"y", IntElem>>)>>
           [] OTHER -> <<>>)

\* The caller's argument: None, the EmptyDict sentinel, or a dict it owns.
CInit ==
    /\ results = <<>>
    /\ clast = NoCLast
    /\ \/ /\ source \in {[kind |-> "none", ref |-> 0], [kind |-> "sentinel", ref |-> 0]}
          /\ lists = <<>>
          /\ dicts = <<>>
       \/ \E ka, kb \in SourceKinds :
             /\ source = [kind |-> "dict", ref |-> 1]
             /\ dicts = <<SourceDict(ka, kb)>>
             /\ lists = SourceLists(ka, kb)

CLast(op, d, k, raised) ==
    [op |-> op, n |-> clast.n + 1, d |-> d, k |-> k, raised |-> raised,
     deepBefore |-> DeepAll(lists, dicts), listsBefore |-> Len(lists)]

\* results.append(copy_extra_params(source))
Copy ==
    /\ clast.n < MaxCopyOps
    /\ LET r == copy_extra_params(lists, dicts, source)
       IN /\ lists' = r.lists
          /\ dicts' = r.dicts
          /\ results' = IF r.raised THEN results ELSE Append(results, r.ref)
          /\ clast' = CLast("copy", r.ref, "", r.raised)
    /\ UNCHANGED <<source, ivars, svars, xvars>>

\* d[k] = "w" on a dict the caller holds
PutStr(d, k) ==
    /\ clast.n < MaxCopyOps
    /\ dicts' = [dicts EXCEPT ![d][k] = DStr("w")]
    /\ clast' = CLast("put", d, k, FALSE)
    /\ UNCHANGED <<lists, source, results, ivars, svars, xvars>>

\* del d[k] on a dict the caller holds
DelKey(d, k) ==
    /\ clast.n < MaxCopyOps
    /\ dicts[d][k].tag # "missing"
    /\ dicts' = [dicts EXCEPT ![d][k] = Missing]
    /\ clast' = CLast("del", d, k, FALSE)
    /\ UNCHANGED <<lists, source, results, ivars, svars, xvars>>

\* d[k].append("v") on a dict the caller holds
AppendItem(d, k) ==
    /\ clast.n < MaxCopyOps
    /\ dicts[d][k].tag = "list"
    /\ lists' = [lists EXCEPT ![dicts[d][k].ref] = Append(@, "v")]
    /\ clast' = CLast("append", d, k, FALSE)
    /\ UNCHANGED <<dicts, source, results, ivars, svars, xvars>>

CNext ==
    \/ Copy
    \/ \E d \in 1..Len(dicts), k \in Keys : PutStr(d, k)
    \/ \E d \in 1..Len(dicts), k \in Keys : DelKey(d, k)
    \/ \E d \in 1..Len(dicts), k \in Keys : AppendItem(d, k)

----------------------------------------------------------------------------
(* get_timespan_if_calendar_entry                                          *)

\* The objects a caller passes: calendar entries (Event and Todo are the
\* subclasses of CalendarEntryAttrs), Timespan objects, datetimes and None.
Events == {"event1", "event2"}
Todos == {"todo1"}
Timespans == {"ts1", "ts2", "ts3"}
Datetimes == {"dt1", "dt2"}
RV(kind, id) == [kind |-> kind, id |-> id]
ResolveArgs ==
    {RV("event", e) : e \in Events} \cup {RV("todo", t) : t \in Todos}
    \cup {RV("timespan", t) : t \in Timespans}
    \cup {RV("datetime", d) : d \in Datetimes} \cup {RV("none", "")}

\* isinstance(value, CalendarEntryAttrs)
IsCalendarEntry(value) == value.kind \in {"event", "todo"}

\* A resolver that tests isinstance(value, Event) only.
get_timespan_if_event(ents, value) ==
    IF value.kind = "event" THEN RV("timespan", ents[value.id]) ELSE value

\* get_timespan_if_calendar_entry(value), ents giving each entry's _timespan
get_timespan_if_calendar_entry(ents, value) ==
    IF IsCalendarEntry(value) THEN RV("timespan", ents[value.id]) ELSE value

NoRLast == [called |-> FALSE, arg |-> RV("none", ""), result |-> RV("none", ""),
            entriesBefore |-> [e \in Events \cup Todos |-> "ts1"]]

RIdle ==
    /\ entries = [e \in Events \cup Todos |-> "ts1"]
    /\ rlast = NoRLast

RInit ==
    /\ entries \in [Events \cup Todos -> Timespans]
    /\ rlast = NoRLast

\* get_timespan_if_calendar_entry(arg)
Resolve(arg) ==
    /\ rlast' = [called |-> TRUE, arg |-> arg,
                 result |-> get_timespan_if_calendar_entry(entries, arg),
                 entriesBefore |-> entries]
    /\ UNCHANGED <<entries, threads, ivars, svars, cvars>>

RNext == \E arg \in ResolveArgs : Resolve(arg)

----------------------------------------------------------------------------
(* __setattr__ statement by statement, called from two threads.            *)

Threads == {"t1", "t2"}
\* The classes, names and values of the writes the threads make.
StepTypes == {"P", "S"}
StepNames == {"count", "limit"}
StepValues == {IntV(-1), StrV("1"), StrV("x")}

NoField == Attribute("", "none", "none")
Ev(ev, o, f, arg, stored) ==
    [ev |-> ev, obj |-> o, field |-> f, arg |-> arg, stored |-> stored]

IdleThread ==
    [pc |-> "idle", obj |-> "", key |-> "", raw |-> Absent, value |-> Absent,
     intercepted |-> FALSE, built |-> {}, reg |-> {}, field |-> NoField,
     log |-> <<>>]

TIdle == threads = [t \in Threads |-> IdleThread]

\* An instance as P(count="1", label="1") or S(count="1", label="1",
\* limit="1") returns it.
BuiltInstance(cls) ==
    [cls |-> cls,
     attrs |-> SetAttr([c \in Types |-> NoEntry], cls,
                       InitAttrs(cls, [n \in FieldNames(cls) |-> StrV("1")]),
                       Marker, BoolV(TRUE)).attrs]

\* Two constructed instances, and the class dictionaries as earlier writes
\* have left them.
StepsInit ==
    /\ \E cl \in [Objs -> StepTypes] : objs = [o \in Objs |-> BuiltInstance(cl[o])]
    /\ \E C \in SUBSET StepTypes :
          class_dict = [c \in Types |->
                          IF c \in C THEN [has |-> TRUE, fields |-> fields_dict(c)]
                          ELSE NoEntry]
    /\ last = NoLast
    /\ nops = 0
    /\ TIdle

Self(t) == threads[t]
ClsOf(t) == objs[Self(t).obj].cls
StepFrame == UNCHANGED <<last, nops, svars, cvars, rvars>>

\* line 97: the call starts and tests the marker.
Begin(t, o, key, value) ==
    /\ Self(t).pc = "idle"
    /\ LET i == Truthy(objs[o].attrs[Marker])
       IN threads' = [threads EXCEPT ![t] =
             [IdleThread EXCEPT !.pc = IF i THEN "check" ELSE "commit",
                                !.obj = o, !.key = key, !.raw = value,
                                !.value = value, !.intercepted = i]]
    /\ UNCHANGED <<objs, class_dict>>
    /\ StepFrame

\* line 99: if not getattr(cls, "__attr_fields__", None)
CheckCache(t) ==
    /\ Self(t).pc = "check"
    /\ threads' = [threads EXCEPT ![t].pc =
                      IF MustBuild(class_dict, ClsOf(t)) THEN "build" ELSE "lookup"]
    /\ UNCHANGED <<objs, class_dict>>
    /\ StepFrame

\* line 100, right-hand side: attr.fields_dict(cls)
BuildRegistry(t) ==
    /\ Self(t).pc = "build"
    /\ threads' = [threads EXCEPT ![t].pc = "store",
                                  ![t].built = fields_dict(ClsOf(t)),
                                  ![t].log = Append(@, Ev("build", Self(t).obj, NoField,
                                                          Absent, Absent))]
    /\ UNCHANGED <<objs, class_dict>>
    /\ StepFrame

\* line 100, assignment: cls.__attr_fields__ = ...
StoreRegistry(t) ==
    /\ Self(t).pc = "store"
    /\ class_dict' = [class_dict EXCEPT ![ClsOf(t)] =
                         [has |-> TRUE, fields |-> Self(t).built]]
    /\ threads' = [threads EXCEPT ![t].pc = "lookup"]
    /\ UNCHANGED objs
    /\ StepFrame

\* lines 101-105: field = cls.__attr_fields__[key], or KeyError
LookupField(t) ==
    /\ Self(t).pc = "lookup"
    /\ LET reg == GetAttrFields(class_dict, ClsOf(t)).fields
           found == \E a \in reg : a.name = Self(t).key
       IN threads' = [threads EXCEPT ![t].pc = IF found THEN "convert" ELSE "commit",
                                     ![t].reg = reg,
                                     ![t].field = IF found THEN FieldOf(reg, Self(t).key)
                                                  ELSE NoField]
    /\ UNCHANGED <<objs, class_dict>>
    /\ StepFrame

\* lines 106-107: value = field.converter(value)
ConvertValue(t) ==
    /\ Self(t).pc = "convert"
    /\ LET f == Self(t).field
           conv == Convert(f.converter, Self(t).value)
       IN threads' =
             IF f.converter = "none" THEN [threads EXCEPT ![t].pc = "validate"]
             ELSE [threads EXCEPT
                     ![t].pc = IF conv.ok THEN "validate" ELSE "raised",
                     ![t].value = conv.val,
                     ![t].log = Append(@, Ev("converter", Self(t).obj, f, Self(t).value,
                                             objs[Self(t).obj].attrs[Self(t).key]))]
    /\ UNCHANGED <<objs, class_dict>>
    /\ StepFrame

\* lines 108-109: field.validator(self, field, value)
ValidateValue(t) ==
    /\ Self(t).pc = "validate"
    /\ LET f == Self(t).field
       IN threads' =
             IF f.validator = "none" THEN [threads EXCEPT ![t].pc = "commit"]
             ELSE [threads EXCEPT
                     ![t].pc = IF Validate(f.validator, Self(t).value) THEN "commit"
                               ELSE "raised",
                     ![t].log = Append(@, Ev("validator", Self(t).obj, f, Self(t).value,
                                             objs[Self(t).obj].attrs[Self(t).key]))]
    /\ UNCHANGED <<objs, class_dict>>
    /\ StepFrame

\* line 110: super().__setattr__(key, value)
Commit(t) ==
    /\ Self(t).pc = "commit"
    /\ objs' = [objs EXCEPT ![Self(t).obj].attrs[Self(t).key] = Self(t).value]
    /\ threads' = [threads EXCEPT
                     ![t].pc = "done",
                     ![t].log = Append(@, Ev("commit", Self(t).obj, NoField, Self(t).value,
                                             objs[Self(t).obj].attrs[Self(t).key]))]
    /\ UNCHANGED class_dict
    /\ StepFrame

StepsNext ==
    \/ \E t \in Threads, o \in Objs, key \in StepNames, value \in StepValues :
          Begin(t, o, key, value)
    \/ \E t \in Threads : CheckCache(t)
    \/ \E t \in Threads : BuildRegistry(t)
    \/ \E t \in Threads : StoreRegistry(t)
    \/ \E t \in Threads : LookupField(t)
    \/ \E t \in Threads : ConvertValue(t)
    \/ \E t \in Threads : ValidateValue(t)
    \/ \E t \in Threads : Commit(t)

----------------------------------------------------------------------------
Init == IInit /\ SInit /\ CIdle /\ RIdle /\ TIdle

Next ==
    \/ \E o \in Objs, cls \in Types :
          \E args \in [FieldNames(cls) -> InitValues] : Construct(o, cls, args)
    \/ \E o \in Objs, key \in AttrNames, value \in Values : SetAttribute(o, key, value)

Spec == Init /\ [][Next]_vars

\* The class dictionaries earlier instances have left: each class has built
\* and stored its registry, or has not.
ConstructInit ==
    /\ objs = [o \in Objs |-> [cls |-> NoClass, attrs |-> EmptyAttrs]]
    /\ \E C \in SUBSET Types :
          class_dict = [c \in Types |->
                          IF c \in C THEN [has |-> TRUE, fields |-> fields_dict(c)]
                          ELSE NoEntry]
    /\ last = NoLast
    /\ nops = 0
    /\ SInit /\ CIdle /\ RIdle /\ TIdle

SpecConstruct == ConstructInit /\ [][ConstructNext]_vars

SpecSentinel == Init /\ [][SNext]_vars

CopyInit == IInit /\ SInit /\ CInit /\ RIdle /\ TIdle

SpecCopy == CopyInit /\ [][CNext]_vars

ResolveInit == IInit /\ SInit /\ CIdle /\ RInit /\ TIdle

SpecResolve == ResolveInit /\ [][RNext]_vars

StepsStart == StepsInit /\ SInit /\ CIdle /\ RIdle

SpecSteps == StepsStart /\ [][StepsNext]_vars

----------------------------------------------------------------------------
(* The claims about the attribute interceptor.                             *)

\* Construction has returned the instance.
Finished(o) == objs[o].cls # NoClass
\* The instance is in the Validated state: its writes are intercepted.
Validated(o) == Finished(o) /\ Truthy(objs[o].attrs[Marker])

\* The last operation was a write on a Validated instance.
ValidatedWrite == last.op = "setattr" /\ last.intercepted
\* ... to a field its own type declares; LastField is that declaration.
DeclaredWrite == ValidatedWrite /\ last.key \in FieldNames(last.cls)
LastField == FieldOf(fields_dict(last.cls), last.key)
LastStored == objs[last.obj].attrs[last.key]

\* C1: in every reachable state, every declared field with a validator of
\* every instance that has finished construction (and is in the Validated
\* state) holds a value that this validator accepts.
C1_FieldInvariant ==
    \A o \in Objs : Validated(o) =>
        \A a \in fields_dict(objs[o].cls) :
            a.validator # "none" => Validate(a.validator, objs[o].attrs[a.name])

\* C2: a write on a Validated instance to a declared field whose validator
\* rejects the converted value fails with the validator's error and leaves
\* the stored value as it was.
C2_RejectedWriteAtomic ==
    (/\ DeclaredWrite
     /\ LastField.validator # "none"
     /\ Convert(LastField.converter, last.value).ok
     /\ ~Validate(LastField.validator, Convert(LastField.converter, last.value).val))
    => (last.outcome = "ValidatorError" /\ LastStored = last.before)

\* C3: a write on a Validated instance to a declared field whose converter
\* fails on the value fails with the converter's error, does not invoke the
\* validator and leaves the stored value as it was.
C3_ConverterFailure ==
    (/\ DeclaredWrite
     /\ LastField.converter # "none"
     /\ ~Convert(LastField.converter, last.value).ok)
    => (last.outcome = "ConverterError" /\ last.valCalls = 0
        /\ LastStored = last.before)

\* C4: a write on a Validated instance of a value v that the converter of the
\* declared field accepts (and its validator accepts once converted) stores
\* exactly converter(v), and a second write of the same v leaves that stored
\* value.
C4_StoresConverted ==
    (/\ DeclaredWrite
     /\ LastField.converter # "none"
     /\ InitField(LastField, last.value).ok)
    => (/\ last.outcome = "ok"
        /\ LastStored = Convert(LastField.converter, last.value).val
        /\ last.repeat => LastStored = last.before)

\* C5: every write on a Validated instance is looked up in the registry built
\* from the declarations of the instance's own class, whichever class had its
\* first validated write earlier.
C5_RegistryOfExactType ==
    ValidatedWrite => last.registry = fields_dict(last.cls)

\* C6: Validated is terminal: no attribute write on an instance takes it out
\* of the Validated state.
C6_ValidatedTerminal ==
    [][\A o \in Objs : Validated(o) => Validated(o)']_vars

\* C7: a write on a Validated instance to a name that is no declared field of
\* its type succeeds, invokes no converter and no validator and stores the
\* value unchanged.
C7_UndeclaredWrite ==
    (ValidatedWrite /\ last.key \notin FieldNames(last.cls))
    => (/\ last.outcome = "ok"
        /\ last.convCalls = 0 /\ last.valCalls = 0
        /\ LastStored = last.value)

\* A P instance is assigned "1" under the name limit, which only S declares,
\* after S's registry has been cached.
C7_Witness ==
    /\ ValidatedWrite
    /\ last.cls = "P" /\ last.key = "limit" /\ last.value = StrV("1")
    /\ "S" \in last.cachedBefore
    /\ LastStored = StrV("1")

\* C8: a write on a Validated instance to a declared field has the outcome a
\* construction with that value for the field has: it fails in the same cases
\* and stores the same value when it succeeds.
C8_WriteEqualsConstruction ==
    DeclaredWrite =>
        (/\ last.outcome = InitField(LastField, last.value).outcome
         /\ last.outcome = "ok" => LastStored = InitField(LastField, last.value).val)

----------------------------------------------------------------------------
(* The claims about the Empty Sentinel.                                    *)

\* C9: after any sequence of item reads, writes and deletes on the sentinel
\* its length is 0, iteration yields nothing and every key lookup returns
\* None; each write or delete raises no error, issues exactly one warning
\* and changes nothing in the sentinel.
C9_SentinelStaysEmpty ==
    /\ EmptyDictType_len(sentinel) = 0
    /\ EmptyDictType_iter(sentinel) = <<>>
    /\ \A k \in Keys : EmptyDictType_getitem(sentinel, k) = NoneV
    /\ sentinel = {}
    /\ slast.op = "getitem" => slast.result = NoneV /\ ~slast.raised
    /\ slast.op = "observe" => slast.len = 0 /\ slast.entries = <<>>
    /\ slast.op \in {"setitem", "delitem"} =>
          /\ ~slast.raised
          /\ Len(warned) = slast.warnedBefore + 1
          /\ warned[Len(warned)].k = slast.k
    /\ slast.op \in {"getitem", "observe"} => Len(warned) = slast.warnedBefore

\* The sentinel is read after a write and a delete have been attempted on it.
C9_Witness ==
    /\ slast.op = "getitem" /\ slast.result = NoneV
    /\ \E i, j \in 1..Len(warned) :
          /\ i < j
          /\ warned[i].text = "EmptyDictType[%r] = %s ignored"
          /\ warned[j].text = "del %s[%r] ignored"

----------------------------------------------------------------------------
(* The claims about copy_extra_params.                                     *)

\* The source as a mapping: what its keys hold, None and the sentinel holding
\* nothing.
SourceDeep(ls, ds) ==
    IF source.kind = "dict" THEN Deep(ls, ds, source.ref)
    ELSE [k \in Keys |-> [tag |-> "missing", s |-> "", content |-> <<>>]]

\* C10: copy_extra_params returns a new mapping with the keys and equal values
\* of the source in which every list is a new list object; afterwards a
\* mutation made through one of the two mappings (a key added or removed, a
\* list value mutated) leaves the other as it was.
C10_CopyIsIndependent ==
    /\ (clast.op = "copy" /\ ~clast.raised) =>
          LET new == results[Len(results)]
          IN /\ new = Len(dicts) /\ new > Len(clast.deepBefore)
             /\ Deep(lists, dicts, new) = SourceDeep(lists, dicts)
             /\ \A r \in ListRefs(dicts, new) : r > clast.listsBefore
             /\ \A k1, k2 \in Keys :
                   (/\ k1 # k2
                    /\ dicts[new][k1].tag = "list"
                    /\ dicts[new][k2].tag = "list")
                   => dicts[new][k1].ref # dicts[new][k2].ref
             /\ \A d \in 1..Len(clast.deepBefore) :
                   Deep(lists, dicts, d) = clast.deepBefore[d]
    /\ clast.op \in {"put", "del", "append"} =>
          \A d \in 1..Len(dicts) :
             d # clast.d => Deep(lists, dicts, d) = clast.deepBefore[d]

\* The list under "b" of a copy of {"a": "x", "b": ["y", "z"]} has been
\* appended to, and the source still holds ["y", "z"].
C10_Witness ==
    /\ clast.op = "append" /\ clast.k = "b"
    /\ source.kind = "dict" /\ clast.d # source.ref
    /\ dicts[source.ref]["a"] = DStr("x")
    /\ dicts[source.ref]["b"].tag = "list"
    /\ lists[dicts[source.ref]["b"].ref] = <<"y", "z">>
    /\ lists[dicts[clast.d]["b"].ref] = <<"y", "z", "v">>

\* The source had no entry when copy_extra_params was called.
SourceFalsy == IsFalsy(dicts, source)

\* C11: copy_extra_params of None, of an empty mapping or of the sentinel
\* returns an empty dict of its own: a dict object of the heap that is neither
\* the argument nor a dict returned earlier, and a write into one result shows
\* in that result only.
C11_EmptyCopyIsOwn ==
    /\ (clast.op = "copy" /\ SourceFalsy) =>
          /\ ~clast.raised
          /\ LET new == results[Len(results)]
             IN /\ new \in 1..Len(dicts)
                /\ new > Len(clast.deepBefore)
                /\ source.kind = "dict" => new # source.ref
                /\ \A i \in 1..(Len(results) - 1) : results[i] # new
                /\ dicts[new] = EmptyMapping
    /\ (clast.op = "put" /\ \E i \in 1..Len(results) : results[i] = clast.d) =>
          /\ dicts[clast.d][clast.k] = DStr("w")
          /\ \A d \in 1..Len(dicts) :
                d # clast.d => Deep(lists, dicts, d) = clast.deepBefore[d]

\* None has been copied twice and the second result written to; the first
\* result is still empty.
C11_Witness ==
    /\ source.kind = "none" /\ Len(results) = 2
    /\ clast.op = "put" /\ clast.d = results[2]
    /\ dicts[results[2]][clast.k] = DStr("w")
    /\ dicts[results[1]] = EmptyMapping

\* A value that is neither a str nor a list of str.
NotStrNorStrList(ls, v) ==
    \/ v.tag = "other"
    \/ v.tag = "list" /\ \E i \in 1..Len(ls[v.ref]) : ~IsStrElem(ls[v.ref][i])
SourceValues == IF source.kind = "dict" THEN {dicts[source.ref][k] : k \in Keys} ELSE {}

\* C12 as stated: copy_extra_params succeeds when every value of the source is
\* a str or a list of str, and fails with the value-kind error whenever some
\* value is neither.
C12_FailsOnOtherValues ==
    clast.op = "copy" =>
        (clast.raised <=> \E v \in SourceValues : NotStrNorStrList(lists, v))

\* C12 amended: copy_extra_params fails with the value-kind error exactly when
\* some value of the source is neither a str nor a list; what a list holds is
\* not looked at.
C12_FailsOnNonListValues ==
    clast.op = "copy" =>
        /\ clast.raised <=> \E v \in SourceValues : v.tag = "other"
        /\ clast.raised => Len(dicts) = Len(clast.deepBefore)

\* The copy of {"a": ["y"], "b": 7} has failed, and no mapping was returned.
C12_Witness ==
    /\ clast.op = "copy" /\ clast.raised
    /\ source.kind = "dict"
    /\ dicts[source.ref]["a"].tag = "list"
    /\ dicts[source.ref]["b"].tag = "other"
    /\ results = <<>>

----------------------------------------------------------------------------
(* The claim about get_timespan_if_calendar_entry.                         *)

\* C13: get_timespan_if_calendar_entry returns the _timespan of a calendar
\* entry and returns every other argument (a timespan, a datetime, None)
\* itself; it changes no entry.
C13_ResolveTimespan ==
    rlast.called =>
        /\ rlast.arg.kind \in {"event", "todo"} =>
              rlast.result = RV("timespan", entries[rlast.arg.id])
        /\ rlast.arg.kind \in {"timespan", "datetime", "none"} =>
              rlast.result = rlast.arg
        /\ entries = rlast.entriesBefore

\* A Todo whose _timespan is ts2 has been resolved to ts2.
C13_Witness ==
    /\ rlast.called /\ rlast.arg = RV("todo", "todo1")
    /\ entries["todo1"] = "ts2"
    /\ rlast.result = RV("timespan", "ts2")

----------------------------------------------------------------------------
(* The claims about the steps of construction and of a validated write.    *)

\* The classes that hold an __attr_fields__ entry of their own.
Cached == {c \in Types : class_dict[c].has}

\* C14: a write on an instance in the Constructing state (its marker not yet
\* set) stores the value as given: no converter and no validator is invoked,
\* the registry cache is neither read nor built; the write of the marker by
\* __attrs_post_init__ is such a write.
C14_ConstructingWrite ==
    /\ (last.op \in {"setattr", "post_init"} /\ last.markerBefore = Absent) =>
          /\ last.outcome = "ok"
          /\ LastStored = last.value
          /\ last.convCalls = 0 /\ last.valCalls = 0
          /\ ~last.intercepted /\ ~last.introspected
          /\ Cached = last.cachedBefore
    /\ last.op = "post_init" => Validated(last.obj)

\* During the construction of an S instance, with S's registry already cached
\* by an earlier instance, "x" has been assigned to count.
C14_Witness ==
    /\ last.op = "setattr" /\ last.markerBefore = Absent
    /\ last.cls = "S" /\ last.key = "count" /\ last.value = StrV("x")
    /\ "S" \in Cached
    /\ LastStored = StrV("x")

\* The calls a write made, in order, the build of the registry left out.
IsCall(e) == e.ev # "build"
Calls(t) == SelectSeq(threads[t].log, IsCall)
Returned(t) == threads[t].pc \in {"done", "raised"}
\* The declaration of the written name in the type of the written instance.
OwnField(t) == FieldOf(fields_dict(ClsOf(t)), threads[t].key)
\* The write is a validated write to a field declared with a converter and a
\* validator.
BothDeclared(t) ==
    /\ threads[t].intercepted
    /\ threads[t].key \in FieldNames(ClsOf(t))
    /\ OwnField(t).converter # "none" /\ OwnField(t).validator # "none"
Alone(t) == \A u \in Threads \ {t} : threads[u].pc = "idle"

\* C15: a validated write to a declared field with a converter and a validator
\* calls the converter once on the raw value, then the validator once with the
\* object, the field descriptor and the converted value, and commits only
\* after the validator has returned; while the validator runs the field still
\* holds its prior value.
C15_StepOrder ==
    \A t \in Threads : (Returned(t) /\ BothDeclared(t)) =>
        LET c == Calls(t)
            D == OwnField(t)
            conv == Convert(D.converter, threads[t].raw)
        IN /\ Len(c) >= 1
           /\ c[1].ev = "converter" /\ c[1].field = D /\ c[1].arg = threads[t].raw
           /\ IF ~conv.ok THEN Len(c) = 1 /\ threads[t].pc = "raised"
              ELSE /\ Len(c) >= 2
                   /\ c[2] = Ev("validator", threads[t].obj, D, conv.val, c[1].stored)
                      \/ (~Alone(t) /\ c[2] = Ev("validator", threads[t].obj, D, conv.val,
                                                 c[2].stored))
                   /\ IF ~Validate(D.validator, conv.val)
                      THEN Len(c) = 2 /\ threads[t].pc = "raised"
                      ELSE /\ Len(c) = 3 /\ threads[t].pc = "done"
                           /\ c[3].ev = "commit" /\ c[3].arg = conv.val
                           /\ Alone(t) => c[3].stored = c[2].stored

\* The case of C15: a write of limit = "1" on an instance of S has returned.
C15_Case ==
    \E t \in Threads :
        /\ Returned(t) /\ BothDeclared(t) /\ Alone(t)
        /\ ClsOf(t) = "S" /\ threads[t].key = "limit" /\ threads[t].raw = StrV("1")

\* The registry a write used is the fields mapping of the type of the
\* instance.
OwnRegistry(t) == threads[t].reg = fields_dict(ClsOf(t))
\* What the declaration of the type prescribes for the write.
Prescribed(t) ==
    IF threads[t].key \in FieldNames(ClsOf(t))
    THEN InitField(OwnField(t), threads[t].raw)
    ELSE [ok |-> TRUE, outcome |-> "ok", val |-> threads[t].raw]
PastLookup(t) == threads[t].pc \notin {"idle", "check", "build", "store", "lookup"}

\* C17: when two threads write to instances of the same type and interleave at
\* the check, build and store of the registry cache, each write uses the
\* fields mapping of that type, the cache holds that mapping once both have
\* passed, and no write skips or misapplies a converter or validator.
C17_RaceBenign ==
    (\A t \in Threads : threads[t].pc # "idle")
    /\ ClsOf("t1") = ClsOf("t2")
    => /\ \A t \in Threads : PastLookup(t) =>
             /\ OwnRegistry(t)
             /\ class_dict[ClsOf(t)] = [has |-> TRUE, fields |-> fields_dict(ClsOf(t))]
       /\ \A t \in Threads : Returned(t) =>
             /\ (threads[t].pc = "done") = Prescribed(t).ok
             /\ threads[t].pc = "done" => threads[t].value = Prescribed(t).val

\* The case of C17: both threads built the registry of S and have returned.
C17_Case ==
    /\ \A t \in Threads : Returned(t) /\ ClsOf(t) = "S"
    /\ \A t \in Threads : \E i \in 1..Len(threads[t].log) : threads[t].log[i].ev = "build"

\* C16: over any sequence of validated writes, the field declarations of a
\* type (of any number of fields, zero included) are introspected on the
\* first validated write on its instances and on no later one, and a cached
\* mapping is never invalidated or replaced.
C16_BuiltOncePerType ==
    [][(last'.op = "setattr" /\ last'.intercepted) =>
          /\ last'.introspected <=> last'.cls \notin Cached
          /\ \A c \in Cached : class_dict'[c] = class_dict[c]]_vars

\* The case of C16: a second validated write on an instance of a type that
\* declares no field.
C16_Case ==
    /\ ValidatedWrite
    /\ fields_dict(last.cls) = {}
    /\ last.cls \in last.cachedBefore
    /\ last.introspected

\* C18: a write of one attribute of one object, successful or not, leaves the
\* other attributes of that object and every other object (attributes and
\* Constructing/Validated state) unchanged, and changes no process-wide state
\* except that it may create the registry cache entry of the object's type.
C18_WriteFrame ==
    [][last'.op = "setattr" =>
          /\ \A k \in AttrNames \ {last'.key} :
                objs'[last'.obj].attrs[k] = objs[last'.obj].attrs[k]
          /\ objs'[last'.obj].cls = objs[last'.obj].cls
          /\ \A o \in Objs \ {last'.obj} :
                objs'[o] = objs[o] /\ (Validated(o)' <=> Validated(o))
          /\ \A c \in Types :
                \/ class_dict'[c] = class_dict[c]
                \/ /\ c = last'.cls /\ ~class_dict[c].has
                   /\ class_dict'[c] = [has |-> TRUE, fields |-> fields_dict(c)]
          /\ UNCHANGED <<svars, cvars, xvars>>]_vars

\* A rejected write that created the cache entry of its type, beside another
\* finished object.
C18_Witness ==
    /\ \A o \in Objs : Validated(o)
    /\ ValidatedWrite /\ last.outcome # "ok"
    /\ last.introspected /\ last.cls \notin last.cachedBefore
    /\ last.cls \in Cached

\* C19: in every reachable state the membership test of every key on the
\* sentinel reports the key absent, as its length 0 and its empty iteration
\* do, and a lookup with a default, get(k, d), yields d.
C19_MembershipConsistent ==
    /\ \A k \in Keys : EmptyDictType_contains(sentinel, k) = BoolV(FALSE)
    /\ \A k \in Keys, d \in ItemValues : EmptyDictType_get(sentinel, k, d) = d
    /\ slast.op = "contains" => slast.result = BoolV(FALSE)
    /\ slast.op = "get" => slast.result = slast.d

\* The case of C19: get(k, "x") has returned, after a write was attempted.
C19_Case ==
    /\ slast.op = "get" /\ slast.d = StrV("x")
    /\ Len(warned) > 0

====
